---------------------------- MODULE Spec2Model ----------------------------
(***************************************************************************)
(* Client-side data layer of the finance dashboard:                        *)
(*   - the credential store, the HTTP gateway (axios instance `api` with   *)
(*     its request/response interceptors) and the session manager          *)
(*     (AuthProvider) of src/src/hooks/useAuth.tsx;                        *)
(*   - the entity stores (useTransactions, useCategories, useAccounts,     *)
(*     useTransfers): their mutations, their list requests and filters;    *)
(*   - the derived views and figures the pages compute from                *)
(*     useTransactions, and the transfer form in front of useTransfers.    *)
(* Every asynchronous function is cut at its awaits: one action per        *)
(* synchronous stretch, the network answering in between.                  *)
(***************************************************************************)
EXTENDS Integers, Sequences, FiniteSets, TLC

(***************************************************************************)
(* Bounds of the model.                                                    *)
(***************************************************************************)
MaxToken == 2      \* the server issues credentials 1..MaxToken
MaxUser == 1       \* the server knows users 1..MaxUser
MaxCalls == 3      \* user-initiated session/gateway calls per behaviour
MaxId == 3         \* record ids the server hands out
MaxName == 2       \* record contents (a name, compared as localeCompare does)
MaxOps == 2        \* store actions in flight at once
MaxStoreCalls == 2 \* store actions started by the user per behaviour
MaxFilter == 2     \* filter sets 1..MaxFilter a page can pass to a store
MaxQueries == 2    \* fetchAll / refresh calls made by the user per behaviour
MaxRows == 2       \* transactions a fetched list holds (ids 1..MaxRows)
MaxDate == 2       \* transaction dates 1..MaxDate
MaxTx == 3         \* transactions the category totals are computed from
MaxJoin == 2       \* transactions the detail join and the period filter run over
MaxAccount == 2    \* account ids 1..MaxAccount
MaxCatId == 2      \* category ids 1..MaxCatId the pages aggregate over
MaxBalance == 2    \* balances -MaxBalance..MaxBalance
MaxAmount == 2     \* amounts 1..MaxAmount
MaxDay == 4        \* days 1..MaxDay, today among them
MonthLength == 2   \* days in a month
MaxSubmits == 1    \* transfer forms submitted to the store
MaxCategory == 1   \* categories 1..MaxCategory a transaction can carry

(***************************************************************************)
(* Values.                                                                 *)
(***************************************************************************)
NoToken == 0       \* localStorage.getItem(...) === null
BadToken == -1     \* a stored string that is no three-part JWT (decode throws)
RefreshTok == 1    \* the refresh credential (opaque: only ever null-checked and sent)
CurrentTime == 1   \* Date.now() / 1000 when the expiry check runs
NoUser == 0        \* user === null
Tokens == 1..MaxToken
Users == 1..MaxUser
StoredTokens == Tokens \cup {NoToken, BadToken}

\* The expiry (payload.exp) carried by an issued credential.
TokenExp(t) == t

PUBLIC_ROUTES == {"/register/", "/auth/token/", "/auth/token/refresh/"}
Unauthorized == "401"
OtherFailure == "other"          \* any other status, or no response at all
Statuses == {Unauthorized, OtherFailure}

GwProcs == {"init", "login", "store", "refresh"}    \* callers of the gateway
SessionOps == {"login", "logout", "refreshToken"}

VARIABLES
    access,      \* localStorage 'access_token'
    refresh,     \* localStorage 'refresh_token'
    user,        \* AuthProvider state `user`
    isLoading,   \* AuthProvider state `isLoading`
    nav,         \* last navigation (router.push / window.location.href)
    req,         \* per gateway caller: its request config (_retry, header) in flight
    pc,          \* per gateway caller: the await its async function is suspended at
    got,         \* per gateway caller: what the gateway last delivered to it
    ret,         \* per session operation: how its last call settled
    issued,      \* AuthApi.login locals {access, refresh}
    calls,       \* user-initiated calls started so far
    last         \* the step just taken: operation, caller, network input

VARIABLES
    kind,        \* which entity store this behaviour runs
    items,       \* the store's local collection
    server,      \* the server's collection of that entity
    nextId,      \* the id the server gives the next created record
    slots,       \* store actions in flight: request, closure, server's answer
    storeCalls,  \* store actions started so far
    ev           \* the store step just taken

VARIABLES
    initialFilters, \* the filter set the hook was constructed with
    lastFilters,    \* useTransactions `currentFilters`, useTransfers `lastFilters`
    page,           \* useTransactions totalCount / hasNext / hasPrevious
    pending,        \* list requests in flight, with the filters they carry
    ready,          \* useTransactions: accounts and categories are loaded
    prefetch,       \* useTransactions: how fetchSupportingData has settled
    effectDue,      \* a fetch effect has to run before the next event
    lastQuery,      \* the list request the most recent fetchAll call issued
    queries,        \* fetchAll / refresh calls made so far
    qev             \* the list step just taken

VARIABLES
    transactions,            \* useTransactions state.transactions
    transactionsWithDetails, \* useTransactions state.transactionsWithDetails
    view                     \* the derived view just computed, and its value

VARIABLES
    accounts,     \* useTransactions / Dashboard state `accounts`
    categories,   \* useTransactions state `categories`
    now,          \* new Date() when a page renders
    periodFilter  \* the reports page's state `periodFilter`

pageVars == <<accounts, categories, now, periodFilter>>

VARIABLES
    fromAccountId, \* Transfers form state `fromAccountId`
    toAccountId,   \* Transfers form state `toAccountId`
    editingId,     \* Transfers form state `editingId`
    toast          \* the message handleSubmit last handed to the toaster

formVars == <<fromAccountId, toAccountId, editingId, toast>>

storeVars == <<kind, items, server, nextId, slots, storeCalls, ev>>

viewVars == <<transactions, transactionsWithDetails, view>>

queryVars == <<initialFilters, lastFilters, page, pending, ready, prefetch, effectDue,
               lastQuery, queries, qev>>

authVars == <<access, refresh, user, isLoading, nav, req, pc, got, ret, issued, calls, last>>

(***************************************************************************)
(* Credential store (tokenStorage / TokenManager).                         *)
(***************************************************************************)
hasValidToken ==
    IF access = NoToken THEN FALSE
    ELSE IF access = BadToken THEN FALSE      \* JSON.parse(atob(...)) throws
    ELSE TokenExp(access) > CurrentTime

isPublicRoute(url) == url \in PUBLIC_ROUTES

(***************************************************************************)
(* Gateway.                                                                *)
(***************************************************************************)
NoErr == [src |-> "none", status |-> "none"]
NoData == [user |-> NoUser, access |-> NoToken, refresh |-> NoToken]
NoIssued == [access |-> NoToken, refresh |-> NoToken]
IdleReq == [st |-> "idle", url |-> "none", hdr |-> NoToken, retry |-> FALSE,
            renewals |-> 0, replays |-> 0]
NoGot == [st |-> "none", err |-> NoErr, data |-> NoData]

\* The label of a step: op is the operation or network event, p the gateway
\* caller concerned, url the request answered, attempt the dispatch a response
\* answers, status/tok the network's input.
Step(op, p, url, attempt, status, tok) ==
    [op |-> op, p |-> p, url |-> url, attempt |-> attempt, status |-> status, tok |-> tok]
Local(op) == Step(op, "none", "none", "none", "none", NoToken)

\* Mutant: the request interceptor does not consult the allowlist.
RequestInterceptorIgnoresAllowlist(url, stored, hdr) ==
    IF stored # NoToken THEN stored ELSE hdr

\* api.interceptors.request: the Authorization header of a request about to
\* be dispatched, `stored` being the access credential in the store and
\* `hdr` the header the config already carries.
RequestInterceptor(url, stored, hdr) ==
    IF ~isPublicRoute(url) /\ stored # NoToken THEN stored ELSE hdr

\* api.get/post/...: a fresh request config run through the request interceptor.
NewRequest(url, stored) ==
    [IdleReq EXCEPT !.st = "sent", !.url = url,
                    !.hdr = RequestInterceptor(url, stored, NoToken)]

\* What a 2xx response to `url` carries.
Payloads(url) ==
    IF url = "/auth/token/"
      THEN {[NoData EXCEPT !.access = a, !.refresh = RefreshTok] : a \in Tokens}
    ELSE IF url = "/users/me/"
      THEN {[NoData EXCEPT !.user = u] : u \in Users}
    ELSE {NoData}

\* The dispatch a response answers.
AttemptOf(r) == IF r.replays > 0 THEN "replay" ELSE "first"

Fulfilled(d) == [st |-> "ok", err |-> NoErr, data |-> d]
Rejected(src, status) == [st |-> "err", err |-> [src |-> src, status |-> status], data |-> NoData]

(***************************************************************************)
(* Session manager (AuthProvider) and AuthApi: the code that runs when the *)
(* gateway's promise settles with `g`.  acc, ref and nv are the credential *)
(* store and the navigation as the gateway left them in the same step.     *)
(***************************************************************************)
\* Mutant: the catch block of initializeAuth does not clear the store.
InitSettleKeepsTokens(g, acc, ref, nv) ==
    /\ IF g.st = "ok" THEN user' = g.data.user ELSE UNCHANGED user
    /\ access' = acc
    /\ refresh' = ref
    /\ isLoading' = FALSE
    /\ nav' = nv
    /\ pc' = [pc EXCEPT !["init"] = "done"]
    /\ req' = [req EXCEPT !["init"] = IdleReq]
    /\ got' = [got EXCEPT !["init"] = g]
    /\ UNCHANGED <<ret, issued, calls>>

\* initializeAuth after getCurrentUser settled.
InitSettle(g, acc, ref, nv) ==
    /\ IF g.st = "ok"
         THEN /\ user' = g.data.user
              /\ access' = acc
              /\ refresh' = ref
         ELSE /\ access' = NoToken
              /\ refresh' = NoToken
              /\ UNCHANGED user
    /\ isLoading' = FALSE
    /\ nav' = nv
    /\ pc' = [pc EXCEPT !["init"] = "done"]
    /\ req' = [req EXCEPT !["init"] = IdleReq]
    /\ got' = [got EXCEPT !["init"] = g]
    /\ UNCHANGED <<ret, issued, calls>>

\* Mutant: the finally block of login is missing.
LoginRejectsKeepsLoading(g, acc, ref, nv) ==
    /\ access' = acc
    /\ refresh' = ref
    /\ nav' = nv
    /\ pc' = [pc EXCEPT !["login"] = "idle"]
    /\ req' = [req EXCEPT !["login"] = IdleReq]
    /\ got' = [got EXCEPT !["login"] = g]
    /\ ret' = [ret EXCEPT !["login"] = "rejected"]
    /\ issued' = NoIssued
    /\ UNCHANGED <<user, isLoading, calls>>

\* A step of AuthApi.login threw: handleApiError throws, AuthProvider.login
\* logs, re-throws, and its finally block runs setIsLoading(false).
LoginRejects(g, acc, ref, nv) ==
    /\ access' = acc
    /\ refresh' = ref
    /\ nav' = nv
    /\ isLoading' = FALSE
    /\ pc' = [pc EXCEPT !["login"] = "idle"]
    /\ req' = [req EXCEPT !["login"] = IdleReq]
    /\ got' = [got EXCEPT !["login"] = g]
    /\ ret' = [ret EXCEPT !["login"] = "rejected"]
    /\ issued' = NoIssued
    /\ UNCHANGED <<user, calls>>

\* AuthApi.login after the credential issuance settled: store both
\* credentials and fetch the current user.
LoginTokenSettle(g, acc, ref, nv) ==
    IF g.st = "ok"
      THEN /\ access' = g.data.access
           /\ refresh' = g.data.refresh
           /\ issued' = [access |-> g.data.access, refresh |-> g.data.refresh]
           /\ req' = [req EXCEPT !["login"] = NewRequest("/users/me/", g.data.access)]
           /\ pc' = [pc EXCEPT !["login"] = "me"]
           /\ got' = [got EXCEPT !["login"] = g]
           /\ nav' = nv
           /\ UNCHANGED <<user, isLoading, ret, calls>>
      ELSE LoginRejects(g, acc, ref, nv)

\* AuthApi.login after the current-user fetch settled, and the rest of
\* AuthProvider.login: setTokens, setUser, router.push('/dashboard'), finally.
LoginMeSettle(g, acc, ref, nv) ==
    IF g.st = "ok"
      THEN /\ access' = issued.access
           /\ refresh' = issued.refresh
           /\ user' = g.data.user
           /\ nav' = "/dashboard"
           /\ isLoading' = FALSE
           /\ pc' = [pc EXCEPT !["login"] = "idle"]
           /\ req' = [req EXCEPT !["login"] = IdleReq]
           /\ got' = [got EXCEPT !["login"] = g]
           /\ ret' = [ret EXCEPT !["login"] = "resolved"]
           /\ issued' = NoIssued
           /\ UNCHANGED calls
      ELSE LoginRejects(g, acc, ref, nv)

\* The entity store's API method returns or throws.
StoreSettle(g, acc, ref, nv) ==
    /\ access' = acc
    /\ refresh' = ref
    /\ nav' = nv
    /\ pc' = [pc EXCEPT !["store"] = "idle"]
    /\ req' = [req EXCEPT !["store"] = IdleReq]
    /\ got' = [got EXCEPT !["store"] = g]
    /\ UNCHANGED <<user, isLoading, ret, issued, calls>>

\* Mutant: the catch block of refreshToken reports false without logging out.
RefreshSettleWithoutLogout(g, acc, ref, nv) ==
    /\ IF g.st = "ok" THEN user' = g.data.user ELSE UNCHANGED user
    /\ access' = acc
    /\ refresh' = ref
    /\ nav' = nv
    /\ ret' = [ret EXCEPT !["refreshToken"] = IF g.st = "ok" THEN "true" ELSE "false"]
    /\ pc' = [pc EXCEPT !["refresh"] = "idle"]
    /\ req' = [req EXCEPT !["refresh"] = IdleReq]
    /\ got' = [got EXCEPT !["refresh"] = g]
    /\ UNCHANGED <<isLoading, issued, calls>>

\* AuthProvider.refreshToken after getCurrentUser settled: setUser and return
\* true, or logout() and return false.  logout() is not awaited; it runs
\* AuthApi.logout at once and its finally block before any other event.
RefreshSettle(g, acc, ref, nv) ==
    /\ IF g.st = "ok"
         THEN /\ user' = g.data.user
              /\ access' = acc
              /\ refresh' = ref
              /\ nav' = nv
              /\ ret' = [ret EXCEPT !["refreshToken"] = "true"]
         ELSE /\ user' = NoUser
              /\ access' = NoToken
              /\ refresh' = NoToken
              /\ nav' = "/login"
              /\ ret' = [ret EXCEPT !["refreshToken"] = "false"]
    /\ pc' = [pc EXCEPT !["refresh"] = "idle"]
    /\ req' = [req EXCEPT !["refresh"] = IdleReq]
    /\ got' = [got EXCEPT !["refresh"] = g]
    /\ UNCHANGED <<isLoading, issued, calls>>

\* The continuation of caller p when its gateway promise settles.
Settle(p, g, acc, ref, nv) ==
    IF p = "init" THEN InitSettle(g, acc, ref, nv)
    ELSE IF p = "login"
      THEN IF pc["login"] = "token" THEN LoginTokenSettle(g, acc, ref, nv)
                                    ELSE LoginMeSettle(g, acc, ref, nv)
    ELSE IF p = "refresh" THEN RefreshSettle(g, acc, ref, nv)
    ELSE StoreSettle(g, acc, ref, nv)

(***************************************************************************)
(* Gateway: the response interceptor, one action per network event.        *)
(***************************************************************************)
\* Success branch: (response) => response.
ResponseOk(p) ==
    /\ req[p].st = "sent"
    /\ \E d \in Payloads(req[p].url) :
          Settle(p, Fulfilled(d), access, refresh, nav)
    /\ last' = Step("ok", p, req[p].url, AttemptOf(req[p]), "none", NoToken)

\* Mutant: the _retry flag is not checked.
StartsRenewalNoRetryFlag(r, status) ==
    /\ ~isPublicRoute(r.url)
    /\ status = Unauthorized

\* Whether the response interceptor enters the 401 branch for this error:
\* not a public route, status 401, and not already retried.
StartsRenewal(r, status) ==
    /\ ~isPublicRoute(r.url)
    /\ status = Unauthorized
    /\ ~r.retry

\* Error branch up to its await: either the renewal call is issued, or the
\* error is rejected to the caller as it is.
ResponseError(p, status) ==
    /\ req[p].st = "sent"
    /\ IF StartsRenewal(req[p], status) /\ refresh # NoToken
         THEN /\ req' = [req EXCEPT ![p].retry = TRUE, ![p].st = "renewing",
                                    ![p].renewals = @ + 1]
              /\ UNCHANGED <<access, refresh, user, isLoading, nav, pc, got, ret, issued, calls>>
         ELSE Settle(p, Rejected(AttemptOf(req[p]), status), access, refresh, nav)
    /\ last' = Step("error", p, req[p].url, AttemptOf(req[p]), status, NoToken)

\* Mutant: the replay keeps the header of the first attempt.
ReplayConfigStaleHeader(r, a) ==
    [r EXCEPT !.st = "sent", !.replays = @ + 1]

\* `originalRequest` as handed to api(originalRequest) after a renewal that
\* returned `a`: its header is set to `a` and the request interceptor then
\* runs on it with `a` in the store.
ReplayConfig(r, a) ==
    [r EXCEPT !.st = "sent", !.replays = @ + 1,
              !.hdr = RequestInterceptor(r.url, a, a)]

\* The renewal call (plain axios.post, no interceptors) succeeded with `a`:
\* setAccessToken(access); return api(originalRequest).
RenewalOk(p, a) ==
    /\ req[p].st = "renewing"
    /\ access' = a
    /\ req' = [req EXCEPT ![p] = ReplayConfig(req[p], a)]
    /\ last' = Step("renewalOk", p, req[p].url, "renewal", "none", a)
    /\ UNCHANGED <<refresh, user, isLoading, nav, pc, got, ret, issued, calls>>

\* Mutant: the catch branch rejects without clearing the store.
RefreshCatchKeepsTokens(status) ==
    [g |-> Rejected("renewal", status), access |-> access, refresh |-> refresh,
     nav |-> "/login"]

\* Mutant: the catch branch rejects with the error of the original request.
RefreshCatchRejectsOriginal(status) ==
    [g |-> Rejected("first", Unauthorized), access |-> NoToken, refresh |-> NoToken,
     nav |-> "/login"]

\* catch (refreshError) { clearTokens(); window.location.href = '/login';
\* return Promise.reject(refreshError) }: what it leaves and what it rejects with.
RefreshCatch(status) ==
    [g |-> Rejected("renewal", status), access |-> NoToken, refresh |-> NoToken,
     nav |-> "/login"]

\* The renewal call failed.
RenewalFail(p, status) ==
    /\ req[p].st = "renewing"
    /\ LET c == RefreshCatch(status)
       IN Settle(p, c.g, c.access, c.refresh, c.nav)
    /\ last' = Step("renewalFail", p, req[p].url, "renewal", status, NoToken)

(***************************************************************************)
(* Calls made by the application.                                          *)
(***************************************************************************)
\* initializeAuth up to its await (or to its end when the expiry check fails).
InitStart ==
    /\ pc["init"] = "start"
    /\ IF hasValidToken
         THEN /\ req' = [req EXCEPT !["init"] = NewRequest("/users/me/", access)]
              /\ pc' = [pc EXCEPT !["init"] = "fetch"]
              /\ UNCHANGED isLoading
         ELSE /\ isLoading' = FALSE
              /\ pc' = [pc EXCEPT !["init"] = "done"]
              /\ UNCHANGED req
    /\ last' = Local("initializeAuth")
    /\ UNCHANGED <<access, refresh, user, nav, got, ret, issued, calls>>

\* User events reach the session only once the provider is mounted.
Mounted == pc["init"] # "start"

\* AuthProvider.login up to the await inside AuthApi.login:
\* setIsLoading(true); api.post('/auth/token/', credentials).
LoginStart ==
    /\ Mounted
    /\ pc["login"] = "idle"
    /\ calls < MaxCalls
    /\ calls' = calls + 1
    /\ isLoading' = TRUE
    /\ req' = [req EXCEPT !["login"] = NewRequest("/auth/token/", access)]
    /\ pc' = [pc EXCEPT !["login"] = "token"]
    /\ ret' = [ret EXCEPT !["login"] = "none"]
    /\ got' = [got EXCEPT !["login"] = NoGot]
    /\ last' = Local("login")
    /\ UNCHANGED <<access, refresh, user, nav, issued>>

\* Mutant: the finally block of logout does not reset the user.
LogoutKeepsUser ==
    /\ Mounted
    /\ calls < MaxCalls
    /\ calls' = calls + 1
    /\ access' = NoToken
    /\ refresh' = NoToken
    /\ nav' = "/login"
    /\ ret' = [ret EXCEPT !["logout"] = "resolved"]
    /\ last' = Local("logout")
    /\ UNCHANGED <<user, isLoading, req, pc, got, issued>>

\* AuthProvider.logout: apiClient.logout() runs AuthApi.logout synchronously
\* (clearTokens, window.location.href = '/login') and resolves; the finally
\* block then runs setUser(null), clearTokens(), router.push('/login').
Logout ==
    /\ Mounted
    /\ calls < MaxCalls
    /\ calls' = calls + 1
    /\ user' = NoUser
    /\ access' = NoToken
    /\ refresh' = NoToken
    /\ nav' = "/login"
    /\ ret' = [ret EXCEPT !["logout"] = "resolved"]
    /\ last' = Local("logout")
    /\ UNCHANGED <<isLoading, req, pc, got, issued>>

\* An entity store calls the gateway (AccountsApi.getAll: api.get('/accounts/')).
StoreCall ==
    /\ pc["store"] = "idle"
    /\ calls < MaxCalls
    /\ calls' = calls + 1
    /\ req' = [req EXCEPT !["store"] = NewRequest("/accounts/", access)]
    /\ pc' = [pc EXCEPT !["store"] = "waiting"]
    /\ got' = [got EXCEPT !["store"] = NoGot]
    /\ last' = Local("storeCall")
    /\ UNCHANGED <<access, refresh, user, isLoading, nav, ret, issued>>

\* AuthProvider.refreshToken up to its await: apiClient.getCurrentUser().  The
\* profile page, its only caller, saves only while it holds a session user.
RefreshTokenStart ==
    /\ Mounted
    /\ user # NoUser
    /\ pc["refresh"] = "idle"
    /\ calls < MaxCalls
    /\ calls' = calls + 1
    /\ req' = [req EXCEPT !["refresh"] = NewRequest("/users/me/", access)]
    /\ pc' = [pc EXCEPT !["refresh"] = "waiting"]
    /\ ret' = [ret EXCEPT !["refreshToken"] = "none"]
    /\ got' = [got EXCEPT !["refresh"] = NoGot]
    /\ last' = Local("refreshToken")
    /\ UNCHANGED <<access, refresh, user, isLoading, nav, issued>>

AuthInit ==
    /\ access \in StoredTokens
    /\ refresh \in {NoToken, RefreshTok}
    /\ user = NoUser
    /\ isLoading = TRUE
    /\ nav = "none"
    /\ req = [p \in GwProcs |-> IdleReq]
    /\ pc = [p \in GwProcs |-> IF p = "init" THEN "start" ELSE "idle"]
    /\ got = [p \in GwProcs |-> NoGot]
    /\ ret = [o \in SessionOps |-> "none"]
    /\ issued = NoIssued
    /\ calls = 0
    /\ last = Local("mount")

(***************************************************************************)
(* Entity stores: useTransactions, useCategories, useAccounts,             *)
(* useTransfers.  One store runs per behaviour (`kind`); the four hooks    *)
(* share no state.                                                         *)
(***************************************************************************)
Kinds == {"transactions", "categories", "accounts", "transfers"}
Ids == 1..MaxId
Names == 1..MaxName
Rec(i, n) == [id |-> i, name |-> n]
NoRec == Rec(0, 0)
Slots == 1..MaxOps

RECURSIVE Map(_, _, _)
\* seq.map(x => x.id === id ? rec : x)
Map(seq, id, rec) ==
    IF seq = <<>> THEN <<>>
    ELSE <<IF Head(seq).id = id THEN rec ELSE Head(seq)>> \o Map(Tail(seq), id, rec)

RECURSIVE Filter(_, _)
\* seq.filter(x => x.id !== id)
Filter(seq, id) ==
    IF seq = <<>> THEN <<>>
    ELSE (IF Head(seq).id = id THEN <<>> ELSE <<Head(seq)>>) \o Filter(Tail(seq), id)

Has(seq, id) == \E i \in 1..Len(seq) : seq[i].id = id
Contains(seq, rec) == \E i \in 1..Len(seq) : seq[i] = rec

RECURSIVE Insert(_, _)
\* rec placed behind every element whose name is not greater (stable).
Insert(rec, sorted) ==
    IF sorted = <<>> THEN <<rec>>
    ELSE IF Head(sorted).name <= rec.name
      THEN <<Head(sorted)>> \o Insert(rec, Tail(sorted))
      ELSE <<rec>> \o sorted

RECURSIVE SortByName(_)
\* seq.sort((a, b) => a.name.localeCompare(b.name)), a stable sort.
SortByName(seq) ==
    IF seq = <<>> THEN <<>>
    ELSE Insert(seq[Len(seq)], SortByName(SubSeq(seq, 1, Len(seq) - 1)))

IdleSlot == [st |-> "idle", op |-> "none", id |-> 0, name |-> 0, snap |-> <<>>,
             rec |-> NoRec, list |-> <<>>]

\* What a store action's promise settles with when it runs to its end:
\* useTransactions and useCategories re-throw from their catch blocks,
\* useAccounts returns null / false and useTransfers undefined / false; a
\* failed fetch is absorbed by all four.
Returned(k, op, ok) ==
    IF ok
      THEN [st |-> "resolved",
            val |-> IF op \in {"create", "update"} THEN "record"
                    ELSE IF op = "delete" /\ k \in {"accounts", "transfers"} THEN "true"
                    ELSE "void"]
    ELSE IF op = "fetch" THEN [st |-> "resolved", val |-> "void"]
    ELSE IF k \in {"transactions", "categories"} THEN [st |-> "rejected", val |-> "error"]
    ELSE IF op = "delete" THEN [st |-> "resolved", val |-> "false"]
    ELSE IF k = "accounts" THEN [st |-> "resolved", val |-> "null"]
    ELSE [st |-> "resolved", val |-> "undefined"]

\* What a store step writes to the error slot: null when the action starts,
\* the message in its catch block, nothing otherwise.
ErrorSlot(phase, ok) ==
    IF phase = "call" THEN "null"
    ELSE IF phase = "deliver" /\ ~ok THEN "message"
    ELSE "kept"

\* The label of a store step.
StoreStep(phase, op, ok, rec) ==
    [phase |-> phase, op |-> op, ok |-> ok, rec |-> rec,
     ret |-> IF phase = "deliver" THEN Returned(kind, op, ok)
                                  ELSE [st |-> "pending", val |-> "none"],
     error |-> ErrorSlot(phase, ok)]

\* The collection a store action's closure holds: useTransfers reads
\* state.transfers of the render the callback was created in; the other
\* hooks read nothing and reconcile through setState(prev => ...).
Closure(k, cur) == IF k = "transfers" THEN cur ELSE <<>>

\* The request a store action puts in flight.
Request(op, id, name) ==
    [IdleSlot EXCEPT !.st = "sent", !.op = op, !.id = id, !.name = name,
                     !.snap = Closure(kind, items)]

\* A store action up to its await: the request is issued.  (Slots are
\* interchangeable; the lowest free one is taken.)
Call(s, op, id, name) ==
    /\ slots[s].st = "idle"
    /\ \A t \in Slots : t < s => slots[t].st # "idle"
    /\ storeCalls < MaxStoreCalls
    /\ storeCalls' = storeCalls + 1
    /\ slots' = [slots EXCEPT ![s] = Request(op, id, name)]
    /\ ev' = StoreStep("call", op, FALSE, NoRec)
    /\ UNCHANGED <<kind, items, server, nextId>>

fetchAll(s) == Call(s, "fetch", 0, 0)
create(s, name) == Call(s, "create", 0, name)
\* The pages offer edit and delete for the records they display.
update(s, id, name) == Has(items, id) /\ Call(s, "update", id, name)
delete(s, id) == Has(items, id) /\ Call(s, "delete", id, 0)

\* The server handles a request and answers it; the answer is in flight.
ServerAccepts(s) ==
    /\ slots[s].st = "sent"
    /\ LET q == slots[s] IN
         \/ /\ q.op = "fetch"
            /\ slots' = [slots EXCEPT ![s].st = "answered",
                                      ![s].list = server]
            /\ UNCHANGED <<server, nextId>>
         \/ /\ q.op = "create"
            /\ nextId <= MaxId
            /\ server' = Append(server, Rec(nextId, q.name))
            /\ nextId' = nextId + 1
            /\ slots' = [slots EXCEPT ![s].st = "answered",
                                      ![s].rec = Rec(nextId, q.name)]
         \/ /\ q.op = "update"
            /\ Has(server, q.id)
            /\ server' = Map(server, q.id, Rec(q.id, q.name))
            /\ slots' = [slots EXCEPT ![s].st = "answered",
                                      ![s].rec = Rec(q.id, q.name)]
            /\ UNCHANGED nextId
         \/ /\ q.op = "delete"
            /\ Has(server, q.id)
            /\ server' = Filter(server, q.id)
            /\ slots' = [slots EXCEPT ![s].st = "answered"]
            /\ UNCHANGED nextId
    /\ ev' = StoreStep("server", slots[s].op, TRUE, NoRec)
    /\ UNCHANGED <<kind, items, storeCalls>>

\* Mutant: every hook prepends to the collection its closure captured.
ReconcileCreateFromClosure(k, rec, cur, snap) == <<rec>> \o snap

\* The collection after a successful create.
ReconcileCreate(k, rec, cur, snap) ==
    IF k = "transactions" THEN <<rec>> \o cur
    ELSE IF k = "categories" THEN SortByName(<<rec>> \o cur)
    ELSE IF k = "accounts" THEN cur \o <<rec>>
    ELSE <<rec>> \o snap

\* Mutant: updateCategory replaces the record and does not sort.
ReconcileUpdateUnsorted(k, id, rec, cur, snap) ==
    IF k = "transfers" THEN Map(snap, id, rec) ELSE Map(cur, id, rec)

\* The collection after a successful update.
ReconcileUpdate(k, id, rec, cur, snap) ==
    IF k = "categories" THEN SortByName(Map(cur, id, rec))
    ELSE IF k = "transfers" THEN Map(snap, id, rec)
    ELSE Map(cur, id, rec)

\* The collection after a successful delete.
ReconcileDelete(k, id, cur, snap) ==
    IF k = "transfers" THEN Filter(snap, id) ELSE Filter(cur, id)

\* The collection after a fetch settled.
ReconcileFetch(k, ok, list, cur) ==
    IF ok THEN list
    ELSE IF k = "transfers" THEN <<>>
    ELSE cur

\* The detail-joined form of a store record (the store model keeps a
\* record's id and contents; with no account or category cached the join
\* adds the fallback account and a null category).
StoreDetail(rec) ==
    [id |-> rec.id, name |-> rec.name, account |-> "Unknown Account", category |-> "null"]
Detailed(seq) == [i \in 1..Len(seq) |-> StoreDetail(seq[i])]

\* Mutant: createTransaction appends the joined record instead of prepending it.
ReconcileDetailsAppendsCreated(k, q, cur) ==
    IF k # "transactions" THEN cur
    ELSE IF q.op = "fetch" THEN Detailed(q.list)
    ELSE IF q.op = "create" THEN cur \o Detailed(<<q.rec>>)
    ELSE IF q.op = "update" THEN Map(cur, q.id, StoreDetail(q.rec))
    ELSE Filter(cur, q.id)

\* useTransactions: transactionsWithDetails after the answered request q is
\* reconciled, inside the same setState(prev => ...) as the collection.
ReconcileDetails(k, q, cur) ==
    IF k # "transactions" THEN cur
    ELSE IF q.op = "fetch" THEN Detailed(q.list)
    ELSE IF q.op = "create" THEN Detailed(<<q.rec>>) \o cur
    ELSE IF q.op = "update" THEN Map(cur, q.id, StoreDetail(q.rec))
    ELSE Filter(cur, q.id)

\* Mutant: delete removes the record before the server confirms, and a
\* failure does not put it back.
FailAfterOptimisticDelete(s) ==
    /\ slots[s].st = "sent"
    /\ LET q == slots[s] IN
         /\ items' = IF q.op = "fetch" THEN ReconcileFetch(kind, FALSE, <<>>, items)
                      ELSE IF q.op = "delete" THEN Filter(items, q.id)
                      ELSE items
         /\ ev' = StoreStep("deliver", q.op, FALSE, NoRec)
    /\ slots' = [slots EXCEPT ![s] = IdleSlot]
    /\ UNCHANGED <<kind, server, nextId, storeCalls, transactionsWithDetails>>

\* The request fails (validation, missing record, transport) without effect
\* on the server, and the store action's catch block runs.
Fail(s) ==
    /\ slots[s].st = "sent"
    /\ LET q == slots[s] IN
         /\ items' = IF q.op = "fetch" THEN ReconcileFetch(kind, FALSE, <<>>, items)
                                      ELSE items
         /\ ev' = StoreStep("deliver", q.op, FALSE, NoRec)
    /\ slots' = [slots EXCEPT ![s] = IdleSlot]
    /\ UNCHANGED <<kind, server, nextId, storeCalls, transactionsWithDetails>>

\* The answer arrives and the store action runs to its end.
Deliver(s) ==
    /\ slots[s].st = "answered"
    /\ LET q == slots[s] IN
         /\ items' =
              IF q.op = "fetch" THEN ReconcileFetch(kind, TRUE, q.list, items)
              ELSE IF q.op = "create" THEN ReconcileCreate(kind, q.rec, items, q.snap)
              ELSE IF q.op = "update" THEN ReconcileUpdate(kind, q.id, q.rec, items, q.snap)
              ELSE ReconcileDelete(kind, q.id, items, q.snap)
         /\ transactionsWithDetails' = ReconcileDetails(kind, q, transactionsWithDetails)
         /\ ev' = StoreStep("deliver", q.op, TRUE, q.rec)
    /\ slots' = [slots EXCEPT ![s] = IdleSlot]
    /\ UNCHANGED <<kind, server, nextId, storeCalls>>

\* After mount: the collection is empty and, unless the hook was created
\* lazily (autoFetch = false; useTransactions without supporting data), the
\* mount effect has issued the first fetch.
StoreInit ==
    /\ kind \in Kinds
    /\ items = <<>>
    /\ server = <<Rec(1, MaxName)>>
    /\ nextId = 2
    /\ \E autoFetch \in BOOLEAN :
          slots = [s \in Slots |->
                     IF autoFetch /\ s = 1
                       THEN [IdleSlot EXCEPT !.st = "sent", !.op = "fetch"]
                       ELSE IdleSlot]
    /\ storeCalls = 0
    /\ ev = StoreStep("mount", "none", FALSE, NoRec)

(***************************************************************************)
(* Entity stores: the list requests (fetchAll, refresh, the fetch effects) *)
(* with their filters, and the normalisation of the list response.         *)
(***************************************************************************)
NoFilters == 0                       \* filters === undefined
EmptyFilters == 1                    \* {}
FilterSets == 1..MaxFilter
FilterArgs == FilterSets \cup {NoFilters}
NoQuery == -1                        \* no list request issued yet
NullLink == "null"                   \* next / previous === null
Links == {NullLink, "url"}

\* buildQueryString(filters || {}): the list request a filter argument gives.
QueryOf(f) == IF f = NoFilters THEN EmptyFilters ELSE f

\* The server's records (one per name) and its answer to a list request:
\* filter set f > 1 selects the records named f - 1.
Catalog == [i \in 1..MaxName |-> Rec(i, i)]
Selects(q, rec) == q = EmptyFilters \/ rec.name = q - 1

RECURSIVE ListFor(_, _)
ListFor(q, seq) ==
    IF seq = <<>> THEN <<>>
    ELSE (IF Selects(q, Head(seq)) THEN <<Head(seq)>> ELSE <<>>) \o ListFor(q, Tail(seq))

\* The bodies a list request for q can be answered with: the flat list, or
\* (transactions) an envelope holding one page of it.
Responses(k, q) ==
    LET full == ListFor(q, Catalog) IN
      {[shape |-> "flat", list |-> full, count |-> 0, next |-> NullLink,
        previous |-> NullLink]}
      \cup
      (IF k = "transactions"
         THEN {[shape |-> "envelope", list |-> SubSeq(full, 1, n), count |-> Len(full),
                next |-> nx, previous |-> pv] :
                  n \in 0..Len(full), nx \in Links, pv \in Links}
         ELSE {})

NoResponse == [shape |-> "none", list |-> <<>>, count |-> 0, next |-> NullLink,
               previous |-> NullLink]
NoPage == [totalCount |-> 0, hasNext |-> FALSE, hasPrevious |-> FALSE]

\* Mutant: the total is always taken from the length of the list.
NormalizeCountsList(r) ==
    [transactions |-> r.list,
     totalCount |-> Len(r.list),
     hasNext |-> IF r.shape = "envelope" THEN r.next # NullLink ELSE FALSE,
     hasPrevious |-> IF r.shape = "envelope" THEN r.previous # NullLink ELSE FALSE]

\* fetchTransactions: isPaginated = 'results' in response, and what it keeps.
Normalize(r) ==
    [transactions |-> r.list,
     totalCount |-> IF r.shape = "envelope" THEN r.count ELSE Len(r.list),
     hasNext |-> IF r.shape = "envelope" THEN r.next # NullLink ELSE FALSE,
     hasPrevious |-> IF r.shape = "envelope" THEN r.previous # NullLink ELSE FALSE]

\* The label of a list step.
QStep(op, arg, sent, r) == [op |-> op, arg |-> arg, sent |-> sent, response |-> r]

\* The filters the hook's fetch function sends when called with `arg`:
\* fetchTransactions uses filters || currentFilters, fetchAccounts takes no
\* argument and uses the hook's filters, the others pass the argument on.
Sent(k, arg) ==
    IF k = "transactions" THEN (IF arg # NoFilters THEN arg ELSE lastFilters)
    ELSE IF k = "accounts" THEN initialFilters
    ELSE arg

\* The filter state after that call: setCurrentFilters(filtersToUse),
\* setLastFilters(filters); useCategories and useAccounts keep none.
Remembered(k, arg) ==
    IF k = "transactions" THEN Sent(k, arg)
    ELSE IF k = "transfers" THEN arg
    ELSE lastFilters

\* The argument refresh() hands to the fetch function.
RefreshArg(k) ==
    IF k = "transactions" THEN NoFilters        \* fetchTransactions()
    ELSE IF k = "transfers" THEN lastFilters    \* fetchTransfers(lastFilters)
    ELSE initialFilters                         \* fetchCategories(initialFilters)

\* The hook's fetch function up to its await.  In useTransactions a change of
\* currentFilters re-creates fetchTransactions, which re-runs the fetch effect.
IssueList(op, arg) ==
    /\ \E s \in Slots :
          /\ pending[s].st = "idle"
          /\ \A t \in Slots : t < s => pending[t].st # "idle"
          /\ pending' = [pending EXCEPT ![s] = [st |-> "sent", filters |-> Sent(kind, arg)]]
    /\ lastFilters' = Remembered(kind, arg)
    /\ effectDue' = (kind = "transactions" /\ Remembered(kind, arg) # lastFilters)
    /\ lastQuery' = QueryOf(Sent(kind, arg))
    /\ qev' = QStep(op, arg, Sent(kind, arg), NoResponse)
    /\ UNCHANGED <<kind, items, initialFilters, page, ready, prefetch>>

\* fetchTransactions / fetchCategories / fetchTransfers called by a page
\* (useAccounts exposes refreshAccounts only).
FetchAllWith(arg) ==
    /\ ~effectDue
    /\ kind # "accounts"
    /\ queries < MaxQueries
    /\ queries' = queries + 1
    /\ IssueList("fetchAll", arg)

\* refreshTransactions / refreshCategories / refreshTransfers / refreshAccounts.
Refresh ==
    /\ ~effectDue
    /\ queries < MaxQueries
    /\ queries' = queries + 1
    /\ IssueList("refresh", RefreshArg(kind))

\* The fetch effect: on mount, and in useTransactions whenever the supporting
\* data or fetchTransactions changed; it fetches with the initial filters
\* (useTransactions: only once accounts and categories are loaded).
EffectRuns ==
    /\ effectDue
    /\ IF kind = "transactions" /\ ~ready
         THEN /\ effectDue' = FALSE
              /\ qev' = QStep("effect", initialFilters, NoFilters, NoResponse)
              /\ UNCHANGED <<kind, items, initialFilters, lastFilters, page, pending,
                             ready, prefetch, lastQuery>>
         ELSE IssueList("effect", initialFilters)
    /\ UNCHANGED queries

\* useTransactions: fetchSupportingData resolved with an empty account or
\* category list (setAccounts / setCategories run, so the effects are due
\* again), or one of its requests failed (it only logs).
SupportingDataUnusable(outcome) ==
    /\ kind = "transactions"
    /\ prefetch = "pending"
    /\ ~effectDue
    /\ prefetch' = outcome
    /\ effectDue' = (outcome = "empty")
    /\ qev' = QStep("supporting", NoFilters, NoFilters, NoResponse)
    /\ UNCHANGED <<kind, items, initialFilters, lastFilters, page, pending, ready,
                   lastQuery, queries>>

\* useTransactions: fetchSupportingData resolved; accounts and categories change.
SupportingDataLoaded ==
    /\ kind = "transactions"
    /\ prefetch = "pending"
    /\ ~ready
    /\ ~effectDue
    /\ ready' = TRUE
    /\ prefetch' = "loaded"
    /\ effectDue' = TRUE
    /\ qev' = QStep("supporting", NoFilters, NoFilters, NoResponse)
    /\ UNCHANGED <<kind, items, initialFilters, lastFilters, page, pending, lastQuery, queries>>

\* A list request is answered with r and the fetch function runs to its end.
ListOk(s) ==
    /\ pending[s].st = "sent"
    /\ \E r \in Responses(kind, QueryOf(pending[s].filters)) :
          /\ items' = ReconcileFetch(kind, TRUE, Normalize(r).transactions, items)
          /\ page' = IF kind = "transactions"
                       THEN [totalCount |-> Normalize(r).totalCount,
                             hasNext |-> Normalize(r).hasNext,
                             hasPrevious |-> Normalize(r).hasPrevious]
                       ELSE page
          /\ qev' = QStep("listOk", NoFilters, pending[s].filters, r)
    /\ pending' = [pending EXCEPT ![s] = [st |-> "idle", filters |-> NoFilters]]
    /\ UNCHANGED <<kind, initialFilters, lastFilters, ready, prefetch, effectDue, lastQuery, queries>>

\* A list request fails and the catch block of the fetch function runs.
ListFail(s) ==
    /\ pending[s].st = "sent"
    /\ items' = ReconcileFetch(kind, FALSE, <<>>, items)
    /\ qev' = QStep("listFail", NoFilters, pending[s].filters, NoResponse)
    /\ pending' = [pending EXCEPT ![s] = [st |-> "idle", filters |-> NoFilters]]
    /\ UNCHANGED <<kind, initialFilters, lastFilters, page, ready, prefetch, effectDue, lastQuery, queries>>

\* No list request made, no list effect due.
QueryAtRest ==
    /\ initialFilters = NoFilters
    /\ lastFilters = NoFilters
    /\ page = NoPage
    /\ pending = [s \in Slots |-> [st |-> "idle", filters |-> NoFilters]]
    /\ ready = FALSE
    /\ prefetch = "none"
    /\ effectDue = FALSE
    /\ lastQuery = NoQuery
    /\ queries = 0
    /\ qev = QStep("mount", NoFilters, NoFilters, NoResponse)

\* A hook just constructed: useState(initialFilters || {}) in useTransactions,
\* useState(initialFilters) in useTransfers; the mount effect is due unless
\* the hook was created with autoFetch = false.
QueryInit ==
    /\ kind \in Kinds
    /\ initialFilters \in FilterArgs
    /\ lastFilters = IF kind = "transactions" THEN QueryOf(initialFilters) ELSE initialFilters
    /\ items = <<>>
    /\ page = NoPage
    /\ pending = [s \in Slots |-> [st |-> "idle", filters |-> NoFilters]]
    /\ ready = FALSE
    /\ prefetch = (IF kind = "transactions" THEN "pending" ELSE "none")
    /\ effectDue \in (IF kind \in {"categories", "transfers"} THEN BOOLEAN ELSE {TRUE})
    /\ lastQuery = NoQuery
    /\ queries = 0
    /\ qev = QStep("mount", NoFilters, NoFilters, NoResponse)
    /\ server = <<>>
    /\ nextId = 1
    /\ slots = [s \in Slots |-> IdleSlot]
    /\ storeCalls = 0
    /\ ev = StoreStep("mount", "none", FALSE, NoRec)

(***************************************************************************)
(* Derived views: what the pages compute from the collections that         *)
(* useTransactions hands them.                                             *)
(***************************************************************************)
Dates == 1..MaxDate
NoCategory == 0                      \* transaction.category === null
Categories == 1..MaxCategory
RowIds == 1..MaxRows
RecentLimit == 8                     \* .slice(0, 8)
Views == {"details", "period", "totals", "metrics", "recent"}

\* A transaction; parseFloat(amount) is taken to be its id.
Row(i, d, c) == [id |-> i, date |-> d, category |-> c]
Amount(row) == row.id

\* The lists a fetch can put in the store: distinct ids, any order.
Lists ==
    UNION {{q \in [1..n -> {Row(i, d, c) : i \in RowIds, d \in Dates,
                                          c \in Categories \cup {NoCategory}}] :
               \A a, b \in 1..n : a # b => q[a].id # q[b].id} : n \in 0..MaxRows}

RECURSIVE InsertByDate(_, _)
\* row placed behind every element whose date is not earlier (stable).
InsertByDate(row, sorted) ==
    IF sorted = <<>> THEN <<row>>
    ELSE IF Head(sorted).date >= row.date
      THEN <<Head(sorted)>> \o InsertByDate(row, Tail(sorted))
      ELSE <<row>> \o sorted

RECURSIVE SortByDateDesc(_)
\* seq.sort((a, b) => new Date(b.date).getTime() - new Date(a.date).getTime())
SortByDateDesc(seq) ==
    IF seq = <<>> THEN <<>>
    ELSE InsertByDate(seq[Len(seq)], SortByDateDesc(SubSeq(seq, 1, Len(seq) - 1)))

RECURSIVE Since(_, _)
\* seq.filter(t => transactionDate >= start)
Since(seq, start) ==
    IF seq = <<>> THEN <<>>
    ELSE (IF Head(seq).date >= start THEN <<Head(seq)>> ELSE <<>>) \o Since(Tail(seq), start)

RECURSIVE Total(_, _)
\* the sum of the amounts of the transactions of category c
Total(seq, c) ==
    IF seq = <<>> THEN 0
    ELSE (IF Head(seq).category = c THEN Amount(Head(seq)) ELSE 0) + Total(Tail(seq), c)

Take(seq, n) == SubSeq(seq, 1, IF Len(seq) < n THEN Len(seq) ELSE n)

\* The array behind transactionsWithDetails once view v has been computed
\* from it: filter, map, forEach and reduce read it; Array.prototype.sort
\* sorts the array it is called on.
ArrayAfter(v, seq) ==
    IF v = "recent" THEN SortByDateDesc(seq) ELSE seq

\* The value of view v: populateTransactionDetails, filteredTransactions,
\* categoriesWithTotals, dashboardMetrics (this period's total),
\* recentTransactions.
ViewValue(v, txs, details, start) ==
    IF v = "details" THEN [rows |-> txs, totals |-> <<>>]
    ELSE IF v = "period" THEN [rows |-> Since(details, start), totals |-> <<>>]
    ELSE IF v = "totals"
      THEN [rows |-> <<>>, totals |-> [c \in Categories |-> Total(Since(details, start), c)]]
    ELSE IF v = "metrics"
      THEN [rows |-> <<>>, totals |-> [c \in Categories |-> Total(Since(details, MaxDate), c)]]
    ELSE [rows |-> Take(SortByDateDesc(details), RecentLimit), totals |-> <<>>]

NoView == [name |-> "none", value |-> [rows |-> <<>>, totals |-> <<>>]]

\* A successful fetchTransactions puts a list in the store (the views are
\* followed over one fetched list).
StoreLoads(list) ==
    /\ view.name = "none"
    /\ transactions' = list
    /\ transactionsWithDetails' = list
    /\ view' = [NoView EXCEPT !.name = "load"]

\* A page renders and its useMemo computes view v.
Render(v, start) ==
    /\ view' = [name |-> v,
                value |-> ViewValue(v, transactions, transactionsWithDetails, start)]
    /\ transactionsWithDetails' = ArrayAfter(v, transactionsWithDetails)
    /\ UNCHANGED transactions

ViewAtRest ==
    /\ transactions = <<>>
    /\ transactionsWithDetails = <<>>
    /\ view = NoView

(***************************************************************************)
(* The figures of the pages: the detail join of useTransactions, the       *)
(* period filter and the category totals of the reports page, the account  *)
(* metrics of the dashboard.  Amounts and balances are whole numbers of    *)
(* cents; a date is a day number, MonthLength days to the month.           *)
(***************************************************************************)
AccountIds == 1..MaxAccount
CatIds == 1..MaxCatId
Balances == (0 - MaxBalance)..MaxBalance
Amounts == 1..MaxAmount
Days == 1..MaxDay
Periods == {"all", "monthly"}

Account(i, b) == [id |-> i, name |-> "cached", balance |-> b]
Category(c) == [id |-> c]
NullCategory == Category(NoCategory)            \* category: null
Transaction(i, a, c, m, d) ==
    [id |-> i, account |-> a, category |-> c, amount |-> m, date |-> d]

\* The sentinel of populateTransactionDetails.
UnknownAccount(i) == [id |-> i, name |-> "Unknown Account", balance |-> 0]

\* seq.find(x => x.id === id) || otherwise
FindOr(seq, id, otherwise) ==
    IF \E i \in 1..Len(seq) : seq[i].id = id
      THEN seq[CHOOSE i \in 1..Len(seq) :
                   /\ seq[i].id = id
                   /\ \A j \in 1..(i - 1) : seq[j].id # id]
      ELSE otherwise

\* Mutant: the join falls back to the first cached account.
populateTransactionDetailsFirstAccount(txs, accs, cats) ==
    [i \in 1..Len(txs) |->
        [id |-> txs[i].id, amount |-> txs[i].amount, date |-> txs[i].date,
         account |-> IF accs # <<>> THEN accs[1] ELSE UnknownAccount(txs[i].account),
         category |-> IF txs[i].category # NoCategory
                        THEN FindOr(cats, txs[i].category, NullCategory)
                        ELSE NullCategory]]

\* transactions.map(transaction => ({...transaction, account: ..., category: ...}))
populateTransactionDetails(txs, accs, cats) ==
    [i \in 1..Len(txs) |->
        [id |-> txs[i].id, amount |-> txs[i].amount, date |-> txs[i].date,
         account |-> FindOr(accs, txs[i].account, UnknownAccount(txs[i].account)),
         category |-> IF txs[i].category # NoCategory
                        THEN FindOr(cats, txs[i].category, NullCategory)
                        ELSE NullCategory]]

\* new Date(now.getFullYear(), now.getMonth(), 1)
StartOfMonth(today) == today - ((today - 1) % MonthLength)
MonthOf(d) == (d - 1) \div MonthLength

\* transactionsWithDetails.filter(transaction => { switch (periodFilter) ... })
filteredTransactions(details, period, today) ==
    SelectSeq(details, LAMBDA t : IF period = "monthly"
                                    THEN t.date >= StartOfMonth(today)
                                    ELSE TRUE)

Entry(c, total, count) == [id |-> c, total |-> total, count |-> count]

RECURSIVE Tally(_, _)
\* filteredTransactions.forEach(...): the entries of the Map, in insertion order.
Tally(seq, entries) ==
    IF seq = <<>> THEN entries
    ELSE LET t == Head(seq)
             c == t.category.id
         IN IF t.category = NullCategory THEN Tally(Tail(seq), entries)
            ELSE IF \E k \in 1..Len(entries) : entries[k].id = c
              THEN Tally(Tail(seq),
                         [k \in 1..Len(entries) |->
                             IF entries[k].id = c
                               THEN Entry(c, entries[k].total + t.amount, entries[k].count + 1)
                               ELSE entries[k]])
              ELSE Tally(Tail(seq), Append(entries, Entry(c, t.amount, 1)))

RECURSIVE InsertByTotal(_, _)
\* e placed behind every entry whose total is not smaller (stable).
InsertByTotal(e, sorted) ==
    IF sorted = <<>> THEN <<e>>
    ELSE IF Head(sorted).total >= e.total
      THEN <<Head(sorted)>> \o InsertByTotal(e, Tail(sorted))
      ELSE <<e>> \o sorted

RECURSIVE SortByTotalDesc(_)
\* .sort((a, b) => b.total - a.total)
SortByTotalDesc(seq) ==
    IF seq = <<>> THEN <<>>
    ELSE InsertByTotal(seq[Len(seq)], SortByTotalDesc(SubSeq(seq, 1, Len(seq) - 1)))

\* Mutant: the entries are left in insertion order.
categoriesWithTotalsUnsorted(filtered) == Tally(filtered, <<>>)

categoriesWithTotals(filtered) == SortByTotalDesc(Tally(filtered, <<>>))

RECURSIVE SumBalances(_)
\* .reduce((sum, account) => sum + parseFloat(account.balance), 0)
SumBalances(seq) ==
    IF seq = <<>> THEN 0 ELSE Head(seq).balance + SumBalances(Tail(seq))

\* Math.abs
Abs(x) == IF x < 0 THEN 0 - x ELSE x

\* Mutant: totalLiabilities without Math.abs.
dashboardMetricsSignedLiabilities(accs) ==
    LET totalAssets == SumBalances(SelectSeq(accs, LAMBDA a : a.balance > 0))
        totalLiabilities == SumBalances(SelectSeq(accs, LAMBDA a : a.balance < 0))
    IN [totalAssets |-> totalAssets, totalLiabilities |-> totalLiabilities,
        netWorth |-> totalAssets - totalLiabilities]

dashboardMetrics(accs) ==
    LET totalAssets == SumBalances(SelectSeq(accs, LAMBDA a : a.balance > 0))
        totalLiabilities == Abs(SumBalances(SelectSeq(accs, LAMBDA a : a.balance < 0)))
    IN [totalAssets |-> totalAssets, totalLiabilities |-> totalLiabilities,
        netWorth |-> totalAssets - totalLiabilities]

\* The caches a prefetch can leave: the first n accounts, the first n categories.
AccountCaches(bs) ==
    UNION {{q \in [1..n -> {Account(i, b) : i \in AccountIds, b \in bs}] :
               \A k \in 1..n : q[k].id = k} : n \in 0..MaxAccount}
CategoryCaches == {[k \in 1..n |-> Category(k)] : n \in 0..MaxCatId}

\* The lists a fetch can return: up to len records with ids 1..n, the other
\* fields from the given sets.
TxLists(len, as, cs, ms, ds) ==
    UNION {{q \in [1..n -> {Transaction(i, a, c, m, d) :
                               i \in 1..len, a \in as, c \in cs, m \in ms, d \in ds}] :
               \A k \in 1..n : q[k].id = k} : n \in 0..len}

\* fetchTransactions succeeded: the list and its detail join are stored
\* (the effect on accounts / categories computes the same join).
LoadDetails ==
    /\ view.name = "none"
    /\ transactionsWithDetails' = populateTransactionDetails(transactions, accounts, categories)
    /\ view' = [name |-> "populateTransactionDetails",
                value |-> populateTransactionDetails(transactions, accounts, categories)]
    /\ UNCHANGED <<transactions, pageVars>>

\* The reports page renders: useMemo filteredTransactions.
RenderFiltered ==
    /\ view.name # "none"
    /\ view' = [name |-> "filteredTransactions",
                value |-> filteredTransactions(transactionsWithDetails, periodFilter, now)]
    /\ UNCHANGED <<transactions, transactionsWithDetails, pageVars>>

\* The reports page renders: useMemo categoriesWithTotals.
RenderTotals ==
    /\ view.name # "none"
    /\ view' = [name |-> "categoriesWithTotals",
                value |-> categoriesWithTotals(
                              filteredTransactions(transactionsWithDetails, periodFilter, now))]
    /\ UNCHANGED <<transactions, transactionsWithDetails, pageVars>>

\* The dashboard renders: useMemo dashboardMetrics.
RenderMetrics ==
    /\ view.name # "none"
    /\ view' = [name |-> "dashboardMetrics", value |-> dashboardMetrics(accounts)]
    /\ UNCHANGED <<transactions, transactionsWithDetails, pageVars>>

\* The pages before anything is loaded.
PageAtRest ==
    /\ accounts = <<>>
    /\ categories = <<>>
    /\ now = 1
    /\ periodFilter = "all"

\* What the pages are given: any caches under a list that names accounts and
\* categories; any dates under any day and period; any categories and
\* amounts; any balances.
PageInit ==
    /\ transactionsWithDetails = <<>>
    /\ view = NoView
    /\ \/ /\ accounts \in AccountCaches({0})
          /\ categories \in CategoryCaches
          /\ transactions \in TxLists(MaxJoin, AccountIds, CatIds \cup {NoCategory}, {1}, {1})
          /\ now = 1
          /\ periodFilter = "all"
       \/ /\ accounts = [k \in AccountIds |-> Account(k, 0)]
          /\ categories = [k \in CatIds |-> Category(k)]
          /\ transactions \in TxLists(MaxJoin, {1}, {NoCategory}, {1}, Days)
          /\ now \in Days
          /\ periodFilter \in Periods
       \/ /\ accounts = [k \in AccountIds |-> Account(k, 0)]
          /\ categories = [k \in CatIds |-> Category(k)]
          /\ transactions \in TxLists(MaxTx, {1}, CatIds \cup {NoCategory}, Amounts, {1})
          /\ now = 1
          /\ periodFilter = "all"
       \/ /\ accounts \in AccountCaches(Balances)
          /\ categories = <<>>
          /\ transactions = <<>>
          /\ now = 1
          /\ periodFilter = "all"

(***************************************************************************)
(* The transfer form (Transfers.tsx) in front of useTransfers.             *)
(***************************************************************************)
NoAccount == 0                       \* fromAccountId === ''
NoEditing == 0                       \* editingId === null
NoToast == "none"
SameAccountError == "Source and destination accounts must be different"
FormAccounts == AccountIds \cup {NoAccount}

\* onChange of the source select.
SetFromAccountId(a) ==
    /\ fromAccountId' = a
    /\ UNCHANGED <<toAccountId, editingId, toast>>

\* onChange of the destination select, which does not offer the source.
SetToAccountId(a) ==
    /\ a # fromAccountId
    /\ toAccountId' = a
    /\ UNCHANGED <<fromAccountId, editingId, toast>>

\* handleEdit(transfer): the form takes the transfer's accounts.
handleEdit(i, f, t) ==
    /\ Has(items, i)
    /\ fromAccountId' = f
    /\ toAccountId' = t
    /\ editingId' = i
    /\ UNCHANGED toast

\* Mutant: handleSubmit without the comparison of the two accounts.
handleSubmitWithoutAccountCheck(s, n) ==
    /\ fromAccountId # NoAccount
    /\ toAccountId # NoAccount
    /\ storeCalls < MaxSubmits
    /\ IF editingId # NoEditing THEN update(s, editingId, n) ELSE create(s, n)
    /\ UNCHANGED formVars

\* handleSubmit up to its await: nothing on an incomplete form, the
\* validation toast on identical accounts, else updateTransfer or
\* createTransfer is called.
handleSubmit(s, n) ==
    /\ fromAccountId # NoAccount
    /\ toAccountId # NoAccount
    /\ IF fromAccountId = toAccountId
         THEN /\ toast' = SameAccountError
              /\ UNCHANGED <<storeVars, fromAccountId, toAccountId, editingId>>
         ELSE /\ storeCalls < MaxSubmits
              /\ IF editingId # NoEditing THEN update(s, editingId, n) ELSE create(s, n)
              /\ UNCHANGED formVars

\* handleSubmit after its await: setEditingId(null), resetForm(), onClose().
\* (useTransfers settles its promise with undefined on failure, so this runs
\* after a failed request too; a settled fetch leaves the form alone.)
resetForm(s) ==
    /\ IF slots[s].op \in {"create", "update"}
         THEN /\ fromAccountId' = NoAccount
              /\ toAccountId' = NoAccount
              /\ editingId' = NoEditing
         ELSE UNCHANGED <<fromAccountId, toAccountId, editingId>>
    /\ UNCHANGED toast

FormAtRest ==
    /\ fromAccountId = NoAccount
    /\ toAccountId = NoAccount
    /\ editingId = NoEditing
    /\ toast = NoToast

(***************************************************************************)
(* Specifications.                                                         *)
(***************************************************************************)
vars == <<authVars, storeVars, queryVars, viewVars, pageVars, formVars>>

\* What the list steps leave alone in the store.
storeRest == <<server, nextId, slots, storeCalls, ev>>

\* The stores before any of them is used.
StoreAtRest ==
    /\ kind = "accounts"
    /\ items = <<>>
    /\ server = <<Rec(1, MaxName)>>
    /\ nextId = 2
    /\ slots = [s \in Slots |-> IdleSlot]
    /\ storeCalls = 0
    /\ ev = StoreStep("mount", "none", FALSE, NoRec)

\* The session as the stores see it: mounted, nothing in flight.
SessionAtRest ==
    /\ access = NoToken
    /\ refresh = NoToken
    /\ user = NoUser
    /\ isLoading = TRUE
    /\ nav = "none"
    /\ req = [p \in GwProcs |-> IdleReq]
    /\ pc = [p \in GwProcs |-> IF p = "init" THEN "start" ELSE "idle"]
    /\ got = [p \in GwProcs |-> NoGot]
    /\ ret = [o \in SessionOps |-> "none"]
    /\ issued = NoIssued
    /\ calls = 0
    /\ last = Local("mount")

Init == AuthInit /\ StoreAtRest /\ QueryAtRest /\ ViewAtRest /\ PageAtRest /\ FormAtRest

Next ==
    \/ InitStart /\ UNCHANGED <<storeVars, queryVars, viewVars, pageVars, formVars>>
    \/ LoginStart /\ UNCHANGED <<storeVars, queryVars, viewVars, pageVars, formVars>>
    \/ Logout /\ UNCHANGED <<storeVars, queryVars, viewVars, pageVars, formVars>>
    \/ StoreCall /\ UNCHANGED <<storeVars, queryVars, viewVars, pageVars, formVars>>
    \/ \E p \in GwProcs : ResponseOk(p) /\ UNCHANGED <<storeVars, queryVars, viewVars, pageVars, formVars>>
    \/ \E p \in GwProcs, status \in Statuses : ResponseError(p, status) /\ UNCHANGED <<storeVars, queryVars, viewVars, pageVars, formVars>>
    \/ \E p \in GwProcs, a \in Tokens : RenewalOk(p, a) /\ UNCHANGED <<storeVars, queryVars, viewVars, pageVars, formVars>>
    \/ \E p \in GwProcs, status \in Statuses : RenewalFail(p, status) /\ UNCHANGED <<storeVars, queryVars, viewVars, pageVars, formVars>>

\* Session manager and gateway.
Spec == Init /\ [][Next]_vars

\* Every request in flight is eventually answered (by a response or by a
\* transport error), and the mount effect runs.
NetworkFor(p) ==
    \/ ResponseOk(p)
    \/ \E status \in Statuses : ResponseError(p, status)
    \/ \E a \in Tokens : RenewalOk(p, a)
    \/ \E status \in Statuses : RenewalFail(p, status)

\* The session manager on its own: no entity store calls the gateway.
FairNext ==
    \/ InitStart /\ UNCHANGED <<storeVars, queryVars, viewVars, pageVars, formVars>>
    \/ LoginStart /\ UNCHANGED <<storeVars, queryVars, viewVars, pageVars, formVars>>
    \/ Logout /\ UNCHANGED <<storeVars, queryVars, viewVars, pageVars, formVars>>
    \/ \E p \in GwProcs : ResponseOk(p) /\ UNCHANGED <<storeVars, queryVars, viewVars, pageVars, formVars>>
    \/ \E p \in GwProcs, status \in Statuses : ResponseError(p, status) /\ UNCHANGED <<storeVars, queryVars, viewVars, pageVars, formVars>>
    \/ \E p \in GwProcs, a \in Tokens : RenewalOk(p, a) /\ UNCHANGED <<storeVars, queryVars, viewVars, pageVars, formVars>>
    \/ \E p \in GwProcs, status \in Statuses : RenewalFail(p, status) /\ UNCHANGED <<storeVars, queryVars, viewVars, pageVars, formVars>>

FairSpec ==
    /\ Init
    /\ [][FairNext]_vars
    /\ WF_vars(InitStart /\ UNCHANGED <<storeVars, queryVars, viewVars, pageVars, formVars>>)
    /\ \A p \in GwProcs : WF_vars(NetworkFor(p) /\ UNCHANGED <<storeVars, queryVars, viewVars, pageVars, formVars>>)

\* The session manager as the profile page drives it: login, logout and
\* refreshToken.
ProfileNext ==
    \/ InitStart /\ UNCHANGED <<storeVars, queryVars, viewVars, pageVars, formVars>>
    \/ LoginStart /\ UNCHANGED <<storeVars, queryVars, viewVars, pageVars, formVars>>
    \/ Logout /\ UNCHANGED <<storeVars, queryVars, viewVars, pageVars, formVars>>
    \/ RefreshTokenStart /\ UNCHANGED <<storeVars, queryVars, viewVars, pageVars, formVars>>
    \/ \E p \in GwProcs : ResponseOk(p) /\ UNCHANGED <<storeVars, queryVars, viewVars, pageVars, formVars>>
    \/ \E p \in GwProcs, status \in Statuses : ResponseError(p, status) /\ UNCHANGED <<storeVars, queryVars, viewVars, pageVars, formVars>>
    \/ \E p \in GwProcs, a \in Tokens : RenewalOk(p, a) /\ UNCHANGED <<storeVars, queryVars, viewVars, pageVars, formVars>>
    \/ \E p \in GwProcs, status \in Statuses : RenewalFail(p, status) /\ UNCHANGED <<storeVars, queryVars, viewVars, pageVars, formVars>>

ProfileSpec == Init /\ [][ProfileNext]_vars

\* One entity store.
StoresInit == StoreInit /\ SessionAtRest /\ QueryAtRest /\ ViewAtRest /\ PageAtRest /\ FormAtRest

StoresNext ==
    \/ \E s \in Slots : fetchAll(s) /\ UNCHANGED <<authVars, queryVars, viewVars, pageVars, formVars>>
    \/ \E s \in Slots, n \in Names : create(s, n) /\ UNCHANGED <<authVars, queryVars, viewVars, pageVars, formVars>>
    \/ \E s \in Slots, i \in Ids, n \in Names : update(s, i, n) /\ UNCHANGED <<authVars, queryVars, viewVars, pageVars, formVars>>
    \/ \E s \in Slots, i \in Ids : delete(s, i) /\ UNCHANGED <<authVars, queryVars, viewVars, pageVars, formVars>>
    \/ \E s \in Slots : ServerAccepts(s) /\ UNCHANGED <<authVars, queryVars, viewVars, pageVars, formVars>>
    \/ \E s \in Slots : Fail(s) /\ UNCHANGED <<authVars, queryVars, transactions, view, pageVars, formVars>>
    \/ \E s \in Slots : Deliver(s) /\ UNCHANGED <<authVars, queryVars, transactions, view, pageVars, formVars>>

StoreSpec == StoresInit /\ [][StoresNext]_vars

\* The list requests of one entity store.
QueriesInit == QueryInit /\ SessionAtRest /\ ViewAtRest /\ PageAtRest /\ FormAtRest

QueriesNext ==
    \/ \E arg \in FilterArgs : FetchAllWith(arg) /\ UNCHANGED <<authVars, storeRest, viewVars, pageVars, formVars>>
    \/ Refresh /\ UNCHANGED <<authVars, storeRest, viewVars, pageVars, formVars>>
    \/ EffectRuns /\ UNCHANGED <<authVars, storeRest, viewVars, pageVars, formVars>>
    \/ SupportingDataLoaded /\ UNCHANGED <<authVars, storeRest, viewVars, pageVars, formVars>>
    \/ \E outcome \in {"empty", "failed"} :
          SupportingDataUnusable(outcome) /\ UNCHANGED <<authVars, storeRest, viewVars, pageVars, formVars>>
    \/ \E s \in Slots : ListOk(s) /\ UNCHANGED <<authVars, storeRest, viewVars, pageVars, formVars>>
    \/ \E s \in Slots : ListFail(s) /\ UNCHANGED <<authVars, storeRest, viewVars, pageVars, formVars>>

QuerySpec == QueriesInit /\ [][QueriesNext]_vars

\* The hook after mount: every effect that is due runs, the prefetch settles
\* one way or another and every list request is answered; nothing obliges a
\* page to call fetchAll or refresh.
MountSpec ==
    /\ QueriesInit
    /\ [][QueriesNext]_vars
    /\ WF_vars(EffectRuns /\ UNCHANGED <<authVars, storeRest, viewVars, pageVars, formVars>>)
    /\ WF_vars(/\ \/ SupportingDataLoaded
                  \/ \E outcome \in {"empty", "failed"} : SupportingDataUnusable(outcome)
               /\ UNCHANGED <<authVars, storeRest, viewVars, pageVars, formVars>>)
    /\ WF_vars(/\ \E s \in Slots : ListOk(s) \/ ListFail(s)
               /\ UNCHANGED <<authVars, storeRest, viewVars, pageVars, formVars>>)

\* The pages computing their views from one useTransactions instance.
ViewsInit == ViewAtRest /\ SessionAtRest /\ StoreAtRest /\ QueryAtRest /\ PageAtRest /\ FormAtRest

ViewsNext ==
    \/ \E list \in Lists : StoreLoads(list) /\ UNCHANGED <<authVars, storeVars, queryVars, pageVars, formVars>>
    \/ \E v \in Views, start \in Dates :
          Render(v, start) /\ UNCHANGED <<authVars, storeVars, queryVars, pageVars, formVars>>

ViewSpec == ViewsInit /\ [][ViewsNext]_vars

\* The figures the pages derive from one loaded list.
PagesInit == PageInit /\ SessionAtRest /\ StoreAtRest /\ QueryAtRest /\ FormAtRest

PagesNext ==
    \/ LoadDetails /\ UNCHANGED <<authVars, storeVars, queryVars, formVars>>
    \/ RenderFiltered /\ UNCHANGED <<authVars, storeVars, queryVars, formVars>>
    \/ RenderTotals /\ UNCHANGED <<authVars, storeVars, queryVars, formVars>>
    \/ RenderMetrics /\ UNCHANGED <<authVars, storeVars, queryVars, formVars>>

PageSpec == PagesInit /\ [][PagesNext]_vars

\* The transfers page: the form and the transfer store behind it.
FormsInit ==
    /\ StoreInit
    /\ kind = "transfers"
    /\ slots[1].st = "sent"
    /\ SessionAtRest /\ QueryAtRest /\ ViewAtRest /\ PageAtRest /\ FormAtRest

FormsNext ==
    \/ \E a \in FormAccounts :
          SetFromAccountId(a) /\ UNCHANGED <<authVars, storeVars, queryVars, viewVars, pageVars>>
    \/ \E a \in FormAccounts :
          SetToAccountId(a) /\ UNCHANGED <<authVars, storeVars, queryVars, viewVars, pageVars>>
    \/ \E i \in Ids, f, t \in AccountIds :
          handleEdit(i, f, t) /\ UNCHANGED <<authVars, storeVars, queryVars, viewVars, pageVars>>
    \/ \E s \in Slots :
          handleSubmit(s, MaxName) /\ UNCHANGED <<authVars, queryVars, viewVars, pageVars>>
    \/ \E s \in Slots :
          ServerAccepts(s) /\ UNCHANGED <<authVars, queryVars, viewVars, pageVars, formVars>>
    \/ \E s \in Slots :
          Fail(s) /\ resetForm(s) /\ UNCHANGED <<authVars, queryVars, transactions, view, pageVars>>
    \/ \E s \in Slots :
          Deliver(s) /\ resetForm(s) /\ UNCHANGED <<authVars, queryVars, transactions, view, pageVars>>

FormSpec == FormsInit /\ [][FormsNext]_vars

(***************************************************************************)
(* Claims about the gateway.                                               *)
(***************************************************************************)
\* C1: when the first attempt of a non-allowlisted request got 401 and the
\* renewal call succeeds with credential a, the store holds a, the original
\* request is dispatched again exactly once (its first replay) carrying a,
\* and whatever answers the replay is what the caller receives.
C1_RenewedReplay ==
    /\ last.op = "renewalOk" =>
          /\ access = last.tok
          /\ req[last.p].st = "sent"
          /\ req[last.p].url = last.url
          /\ req[last.p].hdr = last.tok
          /\ req[last.p].replays = 1
    /\ (last.op = "ok" /\ last.attempt = "replay") =>
          /\ got[last.p].st = "ok"
          /\ req[last.p].replays = 0
    /\ (last.op = "error" /\ last.attempt = "replay") =>
          /\ got[last.p] = Rejected("replay", last.status)
          /\ req[last.p].replays = 0

C1_Witness ==
    /\ last.op = "ok"
    /\ last.attempt = "replay"
    /\ last.p = "store"
    /\ got["store"].st = "ok"

\* C2: whatever the server answers, a request sees at most one renewal call
\* and at most one replay; an error answering the replay (401 included) is
\* rejected to the caller and starts no renewal.
C2_AtMostOneRetry ==
    /\ \A p \in GwProcs :
          /\ req[p].renewals <= 1
          /\ req[p].replays <= req[p].renewals
          /\ (req[p].st = "renewing" => req[p].replays = 0)
    /\ (last.op = "error" /\ last.attempt = "replay") =>
          /\ req[last.p].st = "idle"
          /\ got[last.p].st = "err"

C2_Witness ==
    /\ last.op = "error"
    /\ last.attempt = "replay"
    /\ last.status = Unauthorized
    /\ got[last.p].st = "err"

\* C3: when the renewal call fails (401 or anything else), both credentials
\* are gone from the store, the browser is sent to /login and the original
\* request is settled without a replay.
C3_RenewalFailureClears ==
    last.op = "renewalFail" =>
        /\ access = NoToken
        /\ refresh = NoToken
        /\ nav = "/login"
        /\ req[last.p].st = "idle"
        /\ got[last.p].st = "err"

C3_Witness ==
    /\ last.op = "renewalFail"
    /\ last.status = Unauthorized
    /\ last.p = "store"
    /\ access = NoToken

\* C4 as stated: when the renewal call fails, the caller of the original
\* request receives the original request's 401.
C4_OriginalFailureDelivered ==
    last.op = "renewalFail" => got[last.p] = Rejected("first", Unauthorized)

\* C4 amended: when the renewal call fails, the caller of the original
\* request receives the error of the renewal call.
C4_RenewalErrorDelivered ==
    last.op = "renewalFail" => got[last.p] = Rejected("renewal", last.status)

C4_Witness ==
    /\ last.op = "renewalFail"
    /\ last.status = OtherFailure
    /\ got[last.p].err.src = "renewal"

\* C5: a 401 answering the first attempt of a non-allowlisted request while no
\* refresh credential is stored starts no renewal and no replay, and the
\* store is cleared and the browser sent to /login as the caller is rejected.
NoRefreshTerminal ==
    /\ last.op = "error"
    /\ last.status = Unauthorized
    /\ last.attempt = "first"
    /\ ~isPublicRoute(last.url)
    /\ req[last.p].st # "renewing"

C5_NoRefreshForcesLogout ==
    NoRefreshTerminal =>
        /\ got[last.p].st = "err"
        /\ access = NoToken
        /\ refresh = NoToken
        /\ nav = "/login"

(***************************************************************************)
(* Claims about the session manager.                                       *)
(***************************************************************************)
\* C6: logout, from any state and with any requests in flight, resolves and
\* leaves user = null, no credential in the store and the browser at /login.
C6_LogoutAlwaysClears ==
    last.op = "logout" =>
        /\ ret["logout"] = "resolved"
        /\ user = NoUser
        /\ access = NoToken
        /\ refresh = NoToken
        /\ nav = "/login"

C6_Witness ==
    /\ last.op = "logout"
    /\ req["init"].st = "renewing"
    /\ pc["login"] = "me"
    /\ ret["logout"] = "resolved"

\* C7: session initialization terminates with loading = false.  At that point,
\* no login having been started meanwhile: the user is non-null only if the
\* expiry check passed and the current-user fetch succeeded; if the fetch
\* failed the user is null and both credentials are cleared; if the expiry
\* check failed no request was issued and the user is null.
InitCompleted ==
    /\ pc["init"] = "done"
    /\ (last.op = "initializeAuth" \/ last.p = "init")

NoLoginYet == pc["login"] = "idle" /\ ret["login"] = "none"

InitOutcome ==
    InitCompleted =>
        /\ ~isLoading
        /\ (last.op = "initializeAuth" =>
              /\ got["init"] = NoGot
              /\ req["init"].st = "idle"
              /\ user = NoUser)
        /\ (got["init"].st = "err" =>
              /\ access = NoToken
              /\ refresh = NoToken
              /\ (NoLoginYet => user = NoUser))
        /\ ((NoLoginYet /\ user # NoUser) =>
              /\ got["init"].st = "ok"
              /\ user = got["init"].data.user)

InitChecksExpiry ==
    (pc["init"] = "start" /\ pc'["init"] # "start") =>
        /\ (hasValidToken <=> pc'["init"] = "fetch")
        /\ (pc'["init"] = "fetch" <=> req'["init"].st = "sent")
        /\ (pc'["init"] = "fetch" => req'["init"].url = "/users/me/")

LoginFailed ==
    /\ last.p = "login"
    /\ last.op \in {"error", "renewalFail"}
    /\ req["login"].st # "renewing"

C8_FailedLoginAnonymous ==
    LoginFailed =>
        /\ ret["login"] = "rejected"
        /\ ~isLoading
        /\ nav # "/dashboard"
        /\ user = NoUser

\* C8 amended: a failed login (at either step) rejects to its caller, resets
\* loading, performs no navigation to the dashboard and leaves the user as it
\* was before the failure: null if it was null, the earlier user otherwise.
C8_FailedLoginKeepsUser ==
    [][LoginFailed' =>
          /\ ret'["login"] = "rejected"
          /\ got'["login"].st = "err"
          /\ ~isLoading'
          /\ (nav' = nav \/ nav' = "/login")
          /\ user' = user]_vars

C8_Witness ==
    /\ LoginFailed
    /\ last.url = "/users/me/"
    /\ user # NoUser
    /\ ret["login"] = "rejected"

(***************************************************************************)
(* Claims about the entity stores.                                         *)
(***************************************************************************)
\* The step just taken reconciled a successful create.
CreateReconciled ==
    /\ ev.phase = "deliver"
    /\ ev.op = "create"
    /\ ev.ok

\* C9: in the transaction, category and account stores, the reconciliation of
\* a successful create leaves a collection that contains the returned record
\* and is one element longer than just before, whatever else is in flight.
C9_CreateAddsOne ==
    [][(CreateReconciled' /\ kind # "transfers") =>
          /\ Len(items') = Len(items) + 1
          /\ Contains(items', ev'.rec)]_vars

C9_Witness ==
    /\ CreateReconciled
    /\ kind = "categories"
    /\ Len(items) >= 2
    /\ \E s \in Slots : slots[s].st # "idle"

\* C10: in the transfer store, the reconciliation of a successful
\* createTransfer leaves a collection that contains the returned transfer, is
\* one element longer than just before and still holds every transfer it
\* held, also when creates overlap or a fetch is in flight.
C10_TransferCreateAddsOne ==
    [][(CreateReconciled' /\ kind = "transfers") =>
          /\ Len(items') = Len(items) + 1
          /\ Contains(items', ev'.rec)
          /\ \A i \in 1..Len(items) : Contains(items', items[i])]_vars

\* The step reconciles the answered `op` held by slot s.
Reconciles(s, op) ==
    /\ slots[s].st = "answered"
    /\ slots[s].op = op
    /\ slots'[s].st = "idle"

\* C11: in each of the four stores, the reconciliation of a successful
\* delete(id) leaves a collection that holds no record with that id and is
\* exactly one element shorter than just before.
C11_DeleteRemovesOne ==
    [][\A s \in Slots : Reconciles(s, "delete") =>
          /\ ~Has(items', slots[s].id)
          /\ Len(items') = Len(items) - 1]_vars

\* The step just taken ran the catch block of a create, update or delete.
MutationFailed ==
    /\ ev.phase = "deliver"
    /\ ~ev.ok
    /\ ev.op \in {"create", "update", "delete"}

\* C12: in each of the four stores the collection changes only when a
\* confirmed answer is reconciled: issuing a request and the server handling
\* it leave it alone, and a create, update or delete whose request fails
\* leaves it exactly as it was, writing only the error slot.
C12_FailedMutationKeepsCollection ==
    [][/\ ev'.phase \in {"call", "server"} => items' = items
       /\ MutationFailed' => (items' = items /\ ev'.error = "message")]_vars

C12_Witness ==
    /\ MutationFailed
    /\ ev.op = "delete"
    /\ kind = "transfers"
    /\ Len(items) >= 1

\* C13: in any store, the reconciliation of a successful update(id, data)
\* leaves every record with that id equal to the server's record, keeps every
\* other record and the length of the collection; when no local record has
\* the id the collection is left as it was, and the call resolves with the
\* server's record.
C13_UpdateReplacesInPlace ==
    [][\A s \in Slots : Reconciles(s, "update") =>
          /\ Len(items') = Len(items)
          /\ \A i \in 1..Len(items') :
                items'[i].id = slots[s].id => items'[i] = slots[s].rec
          /\ \A i \in 1..Len(items) :
                items[i].id # slots[s].id => Contains(items', items[i])
          /\ ~Has(items, slots[s].id) => items' = items
          /\ ev'.ret = [st |-> "resolved", val |-> "record"]
          /\ ev'.rec = slots[s].rec]_vars

\* C19: in each of the four stores, a create, update or delete whose request
\* fails rejects the promise returned by the store action, besides setting
\* the error slot; it never resolves with a placeholder value.
C19_FailureRethrown ==
    MutationFailed =>
        /\ ev.ret.st = "rejected"
        /\ ev.error = "message"

\* Non-decreasing order of name.
IsSortedByName(seq) ==
    \A i, j \in 1..Len(seq) : i < j => seq[i].name <= seq[j].name

\* C17: right after the reconciliation of any successful createCategory or
\* updateCategory the whole category collection is in non-decreasing order
\* of name, whatever its order was before.
C17_CategoriesSortedAfterMutation ==
    [][\A s \in Slots :
          (kind = "categories" /\ (Reconciles(s, "create") \/ Reconciles(s, "update")))
             => IsSortedByName(items')]_vars

C17_Witness ==
    /\ kind = "categories"
    /\ ev.phase = "deliver"
    /\ ev.ok
    /\ ev.op = "update"
    /\ ev.rec.id = 2
    /\ Len(items) = 2
    /\ items[1].id = 2
    /\ items[1].name < items[2].name

(***************************************************************************)
(* Claims about the gateway and the session manager, continued.            *)
(***************************************************************************)
\* The step dispatches a request of caller p (a first attempt or a replay).
Dispatched(p) ==
    /\ req'[p].st = "sent"
    /\ req'[p] # req[p]

\* The step just taken rejected an error answering an allowlisted path.
PublicRouteFailed ==
    /\ last.op = "error"
    /\ isPublicRoute(last.url)

\* C15: a request to a non-allowlisted path dispatched while an access
\* credential is stored carries that credential as its header; a request to
\* one of the three allowlisted paths never carries a header, and a 401 (or
\* any error) answering it is rejected to the caller with no renewal call,
\* no clearing of the credential store and no navigation.
C15_HeaderOnlyOffAllowlist ==
    /\ [](\A u \in PUBLIC_ROUTES, t \in StoredTokens :
             /\ NewRequest(u, t).hdr = NoToken
             /\ ~StartsRenewal(NewRequest(u, t), Unauthorized))
    /\ [][\A p \in GwProcs : Dispatched(p) =>
             IF isPublicRoute(req'[p].url)
               THEN req'[p].hdr = NoToken
               ELSE access' # NoToken => req'[p].hdr = access']_vars
    /\ [][PublicRouteFailed' =>
             /\ req'[last'.p].st = "idle"
             /\ got'[last'.p] = Rejected("first", last'.status)
             /\ access' = access
             /\ refresh' = refresh
             /\ nav' = nav]_vars

C15_Witness ==
    /\ PublicRouteFailed
    /\ last.status = Unauthorized
    /\ last.url = "/auth/token/"
    /\ access # NoToken
    /\ refresh # NoToken
    /\ req["store"].st = "sent"
    /\ req["store"].hdr = access

\* The step just taken settled a refreshToken() call.
RefreshSettled ==
    /\ last.p = "refresh"
    /\ last.op \in {"ok", "error", "renewalFail"}
    /\ req["refresh"].st = "idle"

RefreshOutcome ==
    RefreshSettled =>
        /\ (got["refresh"].st = "ok" =>
              /\ ret["refreshToken"] = "true"
              /\ user = got["refresh"].data.user)
        /\ (got["refresh"].st # "ok" =>
              /\ ret["refreshToken"] = "false"
              /\ user = NoUser
              /\ access = NoToken
              /\ refresh = NoToken
              /\ nav = "/login")

\* C16: refreshToken() always settles by returning a boolean: true with the
\* session user set to the fetched user when the current-user fetch
\* succeeds, false when it fails, the logout it triggers leaving user = null,
\* no credential in the store and the browser at /login.
C16_RefreshTokenNeverRejects ==
    /\ RefreshOutcome
    /\ ret["refreshToken"] \in {"none", "true", "false"}
    /\ (pc["refresh"] = "idle" /\ ret["refreshToken"] = "none") => got["refresh"] = NoGot

C16_Witness ==
    /\ RefreshSettled
    /\ last.op = "error"
    /\ last.attempt = "replay"
    /\ ret["refreshToken"] = "false"
    /\ nav = "/login"

(***************************************************************************)
(* Claims about the list requests.                                         *)
(***************************************************************************)
\* The step just taken reconciled a successful fetchTransactions.
FetchTransactionsSucceeded ==
    /\ kind = "transactions"
    /\ qev.op = "listOk"

\* C14: after a successful fetchTransactions the collection is exactly the
\* list the server returned: for an envelope, its results, with totalCount =
\* count and hasNext / hasPrevious true exactly when next / previous are not
\* null; for a flat list, totalCount is its length and both flags are false.
C14_FetchReplacesAndNormalizes ==
    FetchTransactionsSucceeded =>
        /\ items = qev.response.list
        /\ qev.response.shape = "envelope" =>
              /\ page.totalCount = qev.response.count
              /\ page.hasNext = (qev.response.next # NullLink)
              /\ page.hasPrevious = (qev.response.previous # NullLink)
        /\ qev.response.shape = "flat" =>
              /\ page.totalCount = Len(qev.response.list)
              /\ ~page.hasNext
              /\ ~page.hasPrevious

C14_Witness ==
    /\ FetchTransactionsSucceeded
    /\ qev.response.shape = "envelope"
    /\ qev.response.next # NullLink
    /\ qev.response.previous = NullLink
    /\ Len(items) = 1
    /\ page.totalCount > Len(items)
    /\ page.hasNext
    /\ queries = MaxQueries

\* C18: in every store, refresh() issues the list request that the most
\* recent fetchAll call on that store issued (the filters last passed to
\* fetchAll, not those the store was constructed with).
C18_RefreshUsesLastFilters ==
    [][(qev'.op = "refresh" /\ lastQuery # NoQuery) =>
          QueryOf(qev'.sent) = lastQuery]_vars

(***************************************************************************)
(* Claims about the derived views.                                         *)
(***************************************************************************)
\* C20: computing any derived view (detail join, period filter, category
\* totals, dashboard metrics, recent-transactions list) leaves the
\* collections held by the transaction store unchanged, contents and order.
C20_ViewsLeaveStoreUnchanged ==
    [][view'.name \in Views =>
          /\ transactions' = transactions
          /\ transactionsWithDetails' = transactionsWithDetails]_vars

(***************************************************************************)
(* Claims about the figures of the pages.                                  *)
(***************************************************************************)
RECURSIVE SumOf(_, _)
\* The sum of f over the indices in S.
SumOf(f, S) ==
    IF S = {} THEN 0
    ELSE LET i == CHOOSE i \in S : TRUE IN f[i] + SumOf(f, S \ {i})

\* C21: every record of the detail join carries a non-null account whose id
\* is the transaction's account id (the cached account with that id when
\* there is one, else the sentinel named "Unknown Account" with balance 0),
\* and a category that is null or the cached category with the
\* transaction's category id; it is null when the transaction has none.
C21_DetailJoin ==
    view.name # "none" =>
        /\ Len(transactionsWithDetails) = Len(transactions)
        /\ \A i \in 1..Len(transactions) :
              LET t == transactions[i]
                  r == transactionsWithDetails[i]
              IN /\ r.id = t.id
                 /\ r.account.id = t.account
                 /\ IF \E k \in 1..Len(accounts) : accounts[k].id = t.account
                      THEN \E k \in 1..Len(accounts) : accounts[k] = r.account
                      ELSE r.account.name = "Unknown Account" /\ r.account.balance = 0
                 /\ \/ r.category = NullCategory
                    \/ /\ \E k \in 1..Len(categories) : categories[k] = r.category
                       /\ r.category.id = t.category
                 /\ t.category = NoCategory => r.category = NullCategory

\* The join has run over a list with an account that is not cached, a
\* category that is cached and a category that is not.
C21_Witness ==
    /\ view.name = "populateTransactionDetails"
    /\ \E i \in 1..Len(transactionsWithDetails) :
          transactionsWithDetails[i].account.name = "Unknown Account"
    /\ \E i \in 1..Len(transactionsWithDetails) :
          transactionsWithDetails[i].account.name = "cached"
    /\ \E i \in 1..Len(transactionsWithDetails) :
          transactionsWithDetails[i].category # NullCategory
    /\ \E i \in 1..Len(transactionsWithDetails) :
          /\ transactions[i].category # NoCategory
          /\ transactionsWithDetails[i].category = NullCategory

\* C22: with the period set to monthly, the filtered list holds exactly the
\* transactions dated in the current month (its first day included) and
\* none dated in another month, earlier or later.
C22_MonthlyIsCurrentMonth ==
    (view.name = "filteredTransactions" /\ periodFilter = "monthly") =>
        view.value = SelectSeq(transactionsWithDetails,
                               LAMBDA t : MonthOf(t.date) = MonthOf(now))

\* C23: the category totals hold one entry per distinct category id among
\* the filtered transactions with a resolved category; an entry's total is
\* the sum of their amounts and its count their number; the entries are in
\* order of non-increasing total; transactions without a category add
\* nothing.
C23_CategoryTotals ==
    view.name = "categoriesWithTotals" =>
        LET f == filteredTransactions(transactionsWithDetails, periodFilter, now)
            of(c) == {i \in 1..Len(f) : f[i].category # NullCategory /\ f[i].category.id = c}
            ids == {c \in CatIds : of(c) # {}}
            amount == [i \in 1..Len(f) |-> f[i].amount]
            e == view.value
        IN /\ {e[k].id : k \in 1..Len(e)} = ids
           /\ Len(e) = Cardinality(ids)
           /\ \A k \in 1..Len(e) :
                 /\ e[k].count = Cardinality(of(e[k].id))
                 /\ e[k].total = SumOf(amount, of(e[k].id))
           /\ \A k \in 1..(Len(e) - 1) : e[k].total >= e[k + 1].total

\* Totals computed where the category met first has the smaller total and
\* the other one two transactions.
C23_Witness ==
    /\ view.name = "categoriesWithTotals"
    /\ Len(view.value) = 2
    /\ view.value[1].total > view.value[2].total
    /\ view.value[1].count = 2
    /\ transactionsWithDetails[1].category.id = view.value[2].id

C25_SameAccountRejected ==
    [][/\ (fromAccountId # NoAccount /\ fromAccountId = toAccountId) =>
            /\ \A s \in Slots : slots[s].st = "idle" => slots'[s].st = "idle"
            /\ storeCalls' = storeCalls
       /\ toast' # toast =>
            /\ toast' = SameAccountError
            /\ fromAccountId = toAccountId
            /\ slots' = slots /\ items' = items /\ server' = server]_vars

\* A form with the same account on both sides was submitted, for a new
\* transfer, and no request has ever been made for it.
C25_Witness ==
    /\ toast = SameAccountError
    /\ fromAccountId # NoAccount
    /\ fromAccountId = toAccountId
    /\ editingId = NoEditing
    /\ storeCalls = 0
    /\ \A s \in Slots : slots[s].st = "idle"

(***************************************************************************)
(* Claims about the session and the credential store.                      *)
(***************************************************************************)
\* C26: whenever the session manager's user is non-null, an access
\* credential is stored, under any interleaving of initialisation, login,
\* logout, refreshToken and the gateway's renewal.
C26_UserImpliesCredential ==
    user # NoUser => access # NoToken

\* C27: a login that rejects leaves the credential store as it was: a
\* failure of the issuance call changes nothing in it, and when issuance
\* succeeded and the current-user fetch then fails, the credentials just
\* issued are not left in the store.
C27_FailedLoginLeavesStore ==
    [][LoginFailed' =>
          IF pc["login"] = "me"
            THEN ~(access' = issued.access /\ refresh' = issued.refresh)
            ELSE access' = access /\ refresh' = refresh]_vars

(***************************************************************************)
(* Claims about failed fetches and overlapping mutations.                  *)
(***************************************************************************)
\* C28: in each of the four stores, a fetchAll whose request fails leaves
\* the collection exactly as it was before the call.
C28_FailedFetchKeepsCollection ==
    [][(/\ ev'.phase = "deliver" /\ ev'.op = "fetch" /\ ~ev'.ok
        /\ \E s \in Slots :
              slots[s].op = "fetch" /\ slots[s].st = "sent" /\ slots'[s].st = "idle")
        => items' = items]_vars

\* The ids of a list, in order.
IdsOf(seq) == [i \in 1..Len(seq) |-> seq[i].id]

\* C29: in the transaction store the reconciliation of a successful create
\* keeps every record held and adds the created one, that of a successful
\* delete removes the record with that id and keeps every other one,
\* whatever else was in flight or resolved in between, and after every step
\* the detail-joined list holds the same ids in the same order as the raw
\* list: overlapping a create with a delete of another id loses neither.
C29_OverlappingCreateDelete ==
    [][kind = "transactions" =>
          /\ IdsOf(transactionsWithDetails') = IdsOf(items')
          /\ \A s \in Slots :
                Reconciles(s, "create") =>
                    /\ Contains(items', slots[s].rec)
                    /\ \A i \in 1..Len(items) : Contains(items', items[i])
          /\ \A s \in Slots :
                Reconciles(s, "delete") =>
                    /\ ~Has(items', slots[s].id)
                    /\ \A i \in 1..Len(items) :
                          items[i].id # slots[s].id => Contains(items', items[i])]_vars

\* Both resolution orders of an overlapping pair: the create has just been
\* reconciled while the delete of a held record is still in flight, or the
\* delete has just been reconciled while the create is still in flight.
C29_Witness ==
    /\ kind = "transactions"
    /\ ev.phase = "deliver" /\ ev.ok
    /\ IdsOf(transactionsWithDetails) = IdsOf(items)
    /\ \/ /\ ev.op = "create"
          /\ Contains(items, ev.rec)
          /\ Len(items) = 2
          /\ \E s \in Slots :
                slots[s].op = "delete" /\ slots[s].st = "answered" /\ Has(items, slots[s].id)
       \/ /\ ev.op = "delete"
          /\ items = <<>>
          /\ \E s \in Slots : slots[s].op = "create" /\ slots[s].st = "answered"

(***************************************************************************)
(* Claims about the mount of the transaction store.                        *)
(***************************************************************************)
\* C30: after the transaction store is mounted it eventually issues its
\* initial list request, whatever the prefetch of accounts and categories
\* returns (lists, an empty list, a failure).
C30_InitialFetchIssued ==
    <>(kind = "transactions" => lastQuery # NoQuery)

============================================================================
